---------------------------- MODULE Spec2Model ----------------------------
(***************************************************************************)
(* Font resolution and caching (render/src/font.rs): load_font, FontRc,    *)
(* StandardCache and STANDARD_FONTS, run by several threads against one    *)
(* shared StandardCache; and the viewer's page navigation, key input and   *)
(* round_to_16 (view/src/viewer.rs).                                       *)
(***************************************************************************)
EXTENDS Integers, Sequences, FiniteSets, TLC

(* ---------------------------- bounds ---------------------------------- *)

\* Largest num_pages of the viewer contexts.
MaxPages == 7

\* round_to_16 is applied to the integers within RoundSpan of 0, of i32::MIN
\* and of i32::MAX.
RoundSpan == 17

\* Number of threads that call load_font on the same StandardCache.
NumThreads == 2

\* Total number of load_font calls issued over a run.
MaxCalls == 2

Threads == 1..NumThreads

(* ------------------------- option values ------------------------------ *)

None == [some |-> FALSE]

Some(x) == [some |-> TRUE, val |-> x]

(* ------------------------ STANDARD_FONTS ------------------------------ *)

STANDARD_FONTS ==
    << <<"Courier", "CourierStd.otf">>,
       <<"Courier-Bold", "CourierStd-Bold.otf">>,
       <<"Courier-Oblique", "CourierStd-Oblique.otf">>,
       <<"Courier-BoldOblique", "CourierStd-BoldOblique.otf">>,
       <<"Times-Roman", "MinionPro-Regular.otf">>,
       <<"Times-Bold", "MinionPro-Bold.otf">>,
       <<"Times-Italic", "MinionPro-It.otf">>,
       <<"Times-BoldItalic", "MinionPro-BoldIt.otf">>,
       <<"TimesNewRomanPSMT", "TimesNewRomanPSMT.ttf">>,
       <<"TimesNewRomanPS-BoldMT", "TimesNewRomanPS-BoldMT.otf">>,
       <<"TimesNewRomanPS-BoldItalicMT", "TimesNewRomanPS-BoldMT.otf">>,
       <<"Helvetica", "MyriadPro-Regular.otf">>,
       <<"Helvetica-Bold", "MyriadPro-Bold.otf">>,
       <<"Helvetica-Oblique", "MyriadPro-It.otf">>,
       <<"Helvetica-BoldOblique", "MyriadPro-BoldIt.otf">>,
       <<"Symbol", "SY______.PFB">>,
       <<"ZapfDingbats", "AdobePiStd.otf">>,
       <<"Arial-BoldMT", "Arial-BoldMT.otf">>,
       <<"ArialMT", "ArialMT.ttf">>,
       <<"Arial-ItalicMT", "Arial-ItalicMT.otf">> >>

\* Slots are the indices produced by iter().enumerate(): 0 .. len - 1.
Slots == 0..(Len(STANDARD_FONTS) - 1)

StdName(i) == STANDARD_FONTS[i + 1][1]

StdFile(i) == STANDARD_FONTS[i + 1][2]

\* A mutated predicate of find(): names are compared ignoring case (folded
\* here for the one lower-case name the documents of the model use).
NameMatches_IgnoreCase(name, i) ==
    IF name.some
    THEN (IF name.val = "helvetica" THEN "Helvetica" ELSE name.val) = StdName(i)
    ELSE FALSE

\* The predicate of find(): pdf_font.name.as_ref().map(|s| s == name).unwrap_or(false)
NameMatches(name, i) == IF name.some THEN name.val = StdName(i) ELSE FALSE

\* A mutated lookup: a name that is not in the table falls back to the first
\* entry.
FindStandard_Fallback(name) ==
    IF \E i \in Slots : NameMatches(name, i)
    THEN Some(CHOOSE i \in Slots :
                /\ NameMatches(name, i)
                /\ \A j \in Slots : j < i => ~NameMatches(name, j))
    ELSE Some(0)

\* STANDARD_FONTS.iter().enumerate().find(..): the first matching index, if any.
FindStandard(name) ==
    IF \E i \in Slots : NameMatches(name, i)
    THEN Some(CHOOSE i \in Slots :
                /\ NameMatches(name, i)
                /\ \A j \in Slots : j < i => ~NameMatches(name, j))
    ELSE None

(* ------------------------ inputs of load_font ------------------------- *)

\* Declared names the documents of the model use: three standard names (two
\* of them share one asset file), a name differing only in case, and a name
\* that is not in the table.
DeclaredNames ==
    {"Helvetica", "TimesNewRomanPS-BoldMT", "TimesNewRomanPS-BoldItalicMT",
     "helvetica", "Wingdings"}

NameOpts == {None} \cup {Some(n) : n \in DeclaredNames}

\* Names of the fonts that carry embedded data: none, and a standard name.
EmbeddedNameOpts == {None, Some("Helvetica")}

\* Byte strings: one the parser accepts ("OTTO") and one it rejects.
GoodBlob == <<79, 84, 84, 79>>

BadBlob == <<0, 1>>

Blobs == {GoodBlob, BadBlob}

\* pdf_font.embedded_data(resolve): None, Some(Err(e)) or Some(Ok(data)).
NoData == [tag |-> "None"]

DataErr == [tag |-> "Err"]

DataOk(b) == [tag |-> "Ok", bytes |-> b]

\* The standard_fonts directories callers pass.
Dirs == {"fonts", "alt"}

\* What resolve.get(font_ref) yields and the directory passed with it; a
\* reference that cannot be dereferenced carries no metadata.
Unresolvable(d) == [deref |-> FALSE, name |-> None, data |-> NoData, dir |-> d]

NoRequest == Unresolvable("fonts")

\* The declared names that the load of an asset file is keyed by.
StandardNameOpts ==
    {Some(n) : n \in {m \in DeclaredNames : \E i \in Slots : m = StdName(i)}}

\* The calls of the model: an unresolvable reference, a font whose
\* embedded-data accessor fails, fonts with embedded data, fonts without
\* under every name, and "Helvetica" again under a second directory.
Requests ==
    {NoRequest}
    \cup [deref : {TRUE}, name : {None}, data : {DataErr}, dir : {"fonts"}]
    \cup [deref : {TRUE}, name : EmbeddedNameOpts,
          data : {DataOk(b) : b \in Blobs}, dir : {"fonts"}]
    \cup [deref : {TRUE}, name : NameOpts, data : {NoData}, dir : {"fonts"}]
    \cup [deref : {TRUE}, name : {Some("Helvetica")}, data : {NoData},
          dir : Dirs \ {"fonts"}]

(* --------------------------- the parser ------------------------------- *)

\* font::parse(&data): Ok(font) for well-formed bytes, Err(e) otherwise; the
\* parsed font is determined by the bytes, the error names what it rejected.
ParseOk(data) == data = GoodBlob

ParsedFont(data) == [glyphs |-> data]

ParseError(data) == [error |-> "UnknownFormat", len |-> Len(data)]

(* ----------------------------- FontRc --------------------------------- *)

\* FontRc(Arc<dyn Font>): the address of the shared allocation and the font
\* stored there.  FontRc::from(Box) moves the font into a new allocation.
FontRcFrom(font, addr) == [ptr |-> addr, font |-> font]

\* #[derive(Clone)]: Arc::clone shares the allocation.
FontRcClone(h) == [ptr |-> h.ptr, font |-> h.font]

\* A mutated equality: structural comparison of the parsed content.
FontRcEqByContent(a, b) == a.font = b.font

\* PartialEq: Arc::as_ptr(&self.0) == Arc::as_ptr(&rhs.0)
FontRcEq(a, b) == a.ptr = b.ptr

\* Hash: Arc::as_ptr(&self.0).hash(state): what is fed to the hasher is the
\* address alone.
FontRcHash(h) == <<h.ptr>>

(* --------------------------- SyncCache -------------------------------- *)

\* An entry of SyncCache<usize, Option<FontRc>>: absent, being computed by
\* one caller, or computed.
Vacant == [st |-> "Vacant"]

InProcess == [st |-> "InProcess"]

Computed(v) == [st |-> "Computed", val |-> v]

\* StandardCache::new(): SyncCache::new(), the empty cache.
StandardCacheNew == [i \in Slots |-> Vacant]

\* get(key, compute) on a vacant key: the caller claims the key.
SyncCacheClaim(c, k) == [c EXCEPT ![k] = InProcess]

\* get(key, compute) after compute returned: the value is published.
SyncCachePublish(c, k, v) == [c EXCEPT ![k] = Computed(v)]

\* get(key, compute) on a computed key hands out a clone of the stored value.
SyncCacheValue(c, k) ==
    IF c[k].val.some THEN Some(FontRcClone(c[k].val.val)) ELSE None

(* ---------------------------- results --------------------------------- *)

NoCall == [tag |-> "NoCall"]

OkNone == [tag |-> "OkNone"]

\* Ok(Some(FontEntry::build(font, ..))): the entry holds the handle.
OkSome(h) == [tag |-> "OkSome", font |-> h]

Err(e) == [tag |-> "Err", err |-> e]

Panic == [tag |-> "Panic"]

DerefError == [kind |-> "Deref"]

EmbeddedDataError == [kind |-> "EmbeddedData"]

BuildError == [kind |-> "Build"]

\* PdfError::Other { msg: format!("Font Error: {:?}", e) }
FontError(e) == [kind |-> "Other", msg |-> <<"Font Error: ", e>>]

\* format!("font_{}", name or "unnamed")
DumpName(name) == "font_" \o (IF name.some THEN name.val ELSE "unnamed")


\* std::fs::write(&name, &data): the file holds exactly the bytes written,
\* replacing what a file of that name held.
FsWrite(files, name, data) ==
    {f \in files : f.name # name} \cup {[name |-> name, bytes |-> data]}

\* The requests by the arm of load_font they take.
UnresolvableRequests == {r \in Requests : ~r.deref}

DataErrRequests == {r \in Requests : r.deref /\ r.data = DataErr}

EmbeddedRequests == {r \in Requests : r.deref /\ r.data.tag = "Ok"}

NoFontRequests ==
    {r \in Requests : r.deref /\ r.data = NoData /\ ~FindStandard(r.name).some}

StandardRequests ==
    {r \in Requests : r.deref /\ r.data = NoData /\ FindStandard(r.name).some}

(* ----------------------------- state ---------------------------------- *)

VARIABLES
    pc,          \* per thread: where it is in load_font
    req,         \* per thread: the metadata and directory of its current/last call
    ret,         \* per thread: what its last call returned
    obs,         \* per thread: the value its call got from cache.inner.get
    buf,         \* per thread: the bytes read from the asset file
    cache,       \* StandardCache.inner
    nextPtr,     \* the next fresh allocation address
    cwd,         \* the files written to the working directory
    wrote,       \* per thread: how std::fs::write ended in its last call
    ncalls,      \* per thread: load_font calls issued
    nLookup,     \* searches of STANDARD_FONTS performed
    nRead,       \* per slot: std::fs::read calls of the slot's asset file
    nParse,      \* per slot: font::parse calls on asset bytes
    nParseEmb,   \* font::parse calls on embedded bytes
    nWarnLoad,   \* per slot: warn! calls of the load closure
    nWarnNoFont, \* warn!("no font for ..") calls
    reads,       \* the paths std::fs::read was called on, with the cache key
    ctx,         \* the viewer's Context: page_nr, num_pages, redraw_requested
    rnd          \* the last round_to_16 call: its argument and its outcome

vars == <<pc, req, ret, obs, buf, cache, nextPtr, cwd, wrote, ncalls, nLookup,
          nRead, nParse, nParseEmb, nWarnLoad, nWarnNoFont, reads, ctx, rnd>>

\* The font-side variables, which the viewer does not touch.
fontVars == <<pc, req, ret, obs, buf, cache, nextPtr, cwd, wrote, ncalls,
              nLookup, nRead, nParse, nParseEmb, nWarnLoad, nWarnNoFont, reads>>

\* Context.scale: DEFAULT_SCALE or another value.
Scales == {"Default", "Zoomed"}

\* Context::new(config, backend): the fields the key handlers use.
ContextNew ==
    [redraw_requested |-> TRUE, num_pages |-> 1, page_nr |-> 0,
     scale |-> "Default"]

\* round_to_16 has not been called.
NoRound == [called |-> FALSE]

\* standard_fonts.join(file_name)
AssetPath(dir, file) == [dir |-> dir, file |-> file]

Pending == [tag |-> "Pending"]

NoObs == [seen |-> FALSE]

Obs(i, v) == [seen |-> TRUE, slot |-> i, val |-> v]

RECURSIVE SumCalls(_, _)
SumCalls(f, n) == IF n = 0 THEN 0 ELSE f[n] + SumCalls(f, n - 1)

TotalCalls == SumCalls(ncalls, NumThreads)

\* The slot of thread t's current request (defined on the standard path).
SlotOf(t) == FindStandard(req[t].name).val

FontInit ==
    /\ pc = [t \in Threads |-> "idle"]
    /\ req = [t \in Threads |-> NoRequest]
    /\ ret = [t \in Threads |-> NoCall]
    /\ obs = [t \in Threads |-> NoObs]
    /\ buf = [t \in Threads |-> <<>>]
    /\ cache = StandardCacheNew
    /\ nextPtr = 1
    /\ cwd = {}
    /\ wrote = [t \in Threads |-> "none"]
    /\ ncalls = [t \in Threads |-> 0]
    /\ nLookup = 0
    /\ nRead = [i \in Slots |-> 0]
    /\ nParse = [i \in Slots |-> 0]
    /\ nParseEmb = 0
    /\ nWarnLoad = [i \in Slots |-> 0]
    /\ nWarnNoFont = 0
    /\ reads = {}

Init ==
    /\ FontInit
    /\ ctx = ContextNew
    /\ rnd = NoRound

(* ---------------------------- load_font ------------------------------- *)

\* Thread t enters load_font(font_ref, resolve, standard_fonts, cache) with a
\* reference that dereferences as r.
Begin(t, r) ==
    /\ pc[t] = "idle"
    /\ TotalCalls < MaxCalls
    /\ req' = [req EXCEPT ![t] = r]
    /\ ncalls' = [ncalls EXCEPT ![t] = @ + 1]

\* The last line: Ok(Some(FontEntry::build(font, pdf_font, resolve)?)).
Built(h, built) == IF built THEN OkSome(h) ELSE Err(BuildError)

\* let pdf_font = resolve.get(font_ref)?;  -- the dereference fails.
DerefFail(t) ==
    /\ \E r \in UnresolvableRequests : Begin(t, r)
    /\ ret' = [ret EXCEPT ![t] = Err(DerefError)]
    /\ obs' = [obs EXCEPT ![t] = NoObs]
    /\ wrote' = [wrote EXCEPT ![t] = "none"]
    /\ UNCHANGED <<pc, buf, cache, nextPtr, cwd, nLookup, nRead, nParse,
                   nParseEmb, nWarnLoad, nWarnNoFont,
                   reads, ctx, rnd>>

\* A mutated accessor-failure arm: the failure is treated as "no embedded
\* data", the name is looked up and the call ends without a font.
EmbeddedDataFail_Fallback(t) ==
    /\ \E r \in DataErrRequests : Begin(t, r)
    /\ nLookup' = nLookup + 1
    /\ ret' = [ret EXCEPT ![t] = OkNone]
    /\ obs' = [obs EXCEPT ![t] = NoObs]
    /\ wrote' = [wrote EXCEPT ![t] = "none"]
    /\ UNCHANGED <<pc, buf, cache, nextPtr, cwd, nRead, nParse,
                   nParseEmb, nWarnLoad, nWarnNoFont, reads, ctx, rnd>>

\* Some(Err(e)) => return Err(e)
EmbeddedDataFail(t) ==
    /\ \E r \in DataErrRequests : Begin(t, r)
    /\ ret' = [ret EXCEPT ![t] = Err(EmbeddedDataError)]
    /\ obs' = [obs EXCEPT ![t] = NoObs]
    /\ wrote' = [wrote EXCEPT ![t] = "none"]
    /\ UNCHANGED <<pc, buf, cache, nextPtr, cwd, nLookup, nRead, nParse,
                   nParseEmb, nWarnLoad, nWarnNoFont,
                   reads, ctx, rnd>>

\* A mutated embedded arm: a font whose declared name is a standard name is
\* looked up and written to the cache slot of that name.
EmbeddedParse_Cached(t) ==
    \E r \in EmbeddedRequests :
        /\ Begin(t, r)
        /\ nParseEmb' = nParseEmb + 1
        /\ obs' = [obs EXCEPT ![t] = NoObs]
        /\ IF ParseOk(r.data.bytes)
           THEN /\ \E built \in BOOLEAN :
                     ret' = [ret EXCEPT ![t] =
                                Built(FontRcFrom(ParsedFont(r.data.bytes), nextPtr), built)]
                /\ nextPtr' = nextPtr + 1
                /\ wrote' = [wrote EXCEPT ![t] = "none"]
                /\ UNCHANGED <<pc, cwd>>
           ELSE \E written \in BOOLEAN :
                   IF written
                   THEN /\ cwd' = FsWrite(cwd, DumpName(r.name), r.data.bytes)
                        /\ wrote' = [wrote EXCEPT ![t] = "ok"]
                        /\ ret' = [ret EXCEPT ![t] =
                                      Err(FontError(ParseError(r.data.bytes)))]
                        /\ UNCHANGED <<pc, nextPtr>>
                   ELSE /\ ret' = [ret EXCEPT ![t] = Panic]
                        /\ wrote' = [wrote EXCEPT ![t] = "failed"]
                        /\ pc' = [pc EXCEPT ![t] = "panicked"]
                        /\ UNCHANGED <<cwd, nextPtr>>
        /\ nLookup' = nLookup + 1
        /\ cache' = IF FindStandard(r.name).some /\ ParseOk(r.data.bytes)
                    THEN SyncCachePublish(cache, FindStandard(r.name).val,
                             Some(FontRcFrom(ParsedFont(r.data.bytes), nextPtr)))
                    ELSE cache
        /\ UNCHANGED <<buf, nRead, nParse, nWarnLoad, nWarnNoFont,
                   reads, ctx, rnd>>

\* Some(Ok(data)): parse the embedded bytes; on a parse error dump them with
\* std::fs::write(..).unwrap() and return PdfError::Other.  The write may
\* fail, and unwrap() then panics.
EmbeddedParse(t) ==
    \E r \in EmbeddedRequests :
        /\ Begin(t, r)
        /\ nParseEmb' = nParseEmb + 1
        /\ obs' = [obs EXCEPT ![t] = NoObs]
        /\ IF ParseOk(r.data.bytes)
           THEN /\ \E built \in BOOLEAN :
                     ret' = [ret EXCEPT ![t] =
                                Built(FontRcFrom(ParsedFont(r.data.bytes), nextPtr), built)]
                /\ nextPtr' = nextPtr + 1
                /\ wrote' = [wrote EXCEPT ![t] = "none"]
                /\ UNCHANGED <<pc, cwd>>
           ELSE \E written \in BOOLEAN :
                   IF written
                   THEN /\ cwd' = FsWrite(cwd, DumpName(r.name), r.data.bytes)
                        /\ wrote' = [wrote EXCEPT ![t] = "ok"]
                        /\ ret' = [ret EXCEPT ![t] =
                                      Err(FontError(ParseError(r.data.bytes)))]
                        /\ UNCHANGED <<pc, nextPtr>>
                   ELSE /\ ret' = [ret EXCEPT ![t] = Panic]
                        /\ wrote' = [wrote EXCEPT ![t] = "failed"]
                        /\ pc' = [pc EXCEPT ![t] = "panicked"]
                        /\ UNCHANGED <<cwd, nextPtr>>
        /\ UNCHANGED <<buf, cache, nLookup, nRead, nParse, nWarnLoad, nWarnNoFont,
                   reads, ctx, rnd>>

\* None => find(..) yields None: warn!("no font for {:?}") and Ok(None).
NoFont(t) ==
    /\ \E r \in NoFontRequests : Begin(t, r)
    /\ nLookup' = nLookup + 1
    /\ nWarnNoFont' = nWarnNoFont + 1
    /\ ret' = [ret EXCEPT ![t] = OkNone]
    /\ obs' = [obs EXCEPT ![t] = NoObs]
    /\ wrote' = [wrote EXCEPT ![t] = "none"]
    /\ UNCHANGED <<pc, buf, cache, nextPtr, cwd, nRead, nParse, nParseEmb, nWarnLoad,
                   reads, ctx, rnd>>

\* match val { Some(f) => f, None => return Ok(None) } and the build that
\* follows: thread t leaves cache.inner.get(i, ..) with value v.
Leave(t, i, v) ==
    /\ obs' = [obs EXCEPT ![t] = Obs(i, v)]
    /\ pc' = [pc EXCEPT ![t] = "idle"]
    /\ IF v.some
       THEN \E built \in BOOLEAN : ret' = [ret EXCEPT ![t] = Built(v.val, built)]
       ELSE ret' = [ret EXCEPT ![t] = OkNone]

\* A mutated entry into get(): a caller that finds the key being computed
\* runs the closure itself instead of waiting.
GetEntry_NoWait(t, i) ==
    \/ /\ cache[i].st = "Computed"
       /\ Leave(t, i, SyncCacheValue(cache, i))
       /\ UNCHANGED cache
    \/ /\ cache[i] # Vacant /\ cache[i].st # "Computed"
       /\ pc' = [pc EXCEPT ![t] = "reading"]
       /\ ret' = [ret EXCEPT ![t] = Pending]
       /\ obs' = [obs EXCEPT ![t] = NoObs]
       /\ UNCHANGED cache
    \/ /\ cache[i] = Vacant
       /\ cache' = SyncCacheClaim(cache, i)
       /\ pc' = [pc EXCEPT ![t] = "reading"]
       /\ ret' = [ret EXCEPT ![t] = Pending]
       /\ obs' = [obs EXCEPT ![t] = NoObs]

\* A mutated entry into get(): a computed key is refreshed, the caller claims
\* it again and recomputes.
GetEntry_Refresh(t, i) ==
    \/ /\ cache[i] = InProcess
       /\ pc' = [pc EXCEPT ![t] = "waiting"]
       /\ ret' = [ret EXCEPT ![t] = Pending]
       /\ obs' = [obs EXCEPT ![t] = NoObs]
       /\ UNCHANGED cache
    \/ /\ cache[i] # InProcess
       /\ cache' = SyncCacheClaim(cache, i)
       /\ pc' = [pc EXCEPT ![t] = "reading"]
       /\ ret' = [ret EXCEPT ![t] = Pending]
       /\ obs' = [obs EXCEPT ![t] = NoObs]

\* A mutated entry into get(): one lock guards the whole map, a caller waits
\* while any key is being computed.
GetEntry_GlobalLock(t, i) ==
    \/ /\ cache[i].st = "Computed"
       /\ \A j \in Slots : cache[j] # InProcess
       /\ Leave(t, i, SyncCacheValue(cache, i))
       /\ UNCHANGED cache
    \/ /\ \E j \in Slots : cache[j] = InProcess
       /\ pc' = [pc EXCEPT ![t] = "waiting"]
       /\ ret' = [ret EXCEPT ![t] = Pending]
       /\ obs' = [obs EXCEPT ![t] = NoObs]
       /\ UNCHANGED cache
    \/ /\ cache[i] = Vacant
       /\ \A j \in Slots : cache[j] # InProcess
       /\ cache' = SyncCacheClaim(cache, i)
       /\ pc' = [pc EXCEPT ![t] = "reading"]
       /\ ret' = [ret EXCEPT ![t] = Pending]
       /\ obs' = [obs EXCEPT ![t] = NoObs]

\* A mutated entry into get(): the key includes the directory, a computed
\* slot whose asset was read from another directory is loaded again.
GetEntry_PerDir(t, i) ==
    LET stale == \E r \in reads : r.key = i /\ r.path.dir # req'[t].dir IN
      \/ /\ cache[i].st = "Computed" /\ ~stale
         /\ Leave(t, i, SyncCacheValue(cache, i))
         /\ UNCHANGED cache
      \/ /\ cache[i] = InProcess
         /\ pc' = [pc EXCEPT ![t] = "waiting"]
         /\ ret' = [ret EXCEPT ![t] = Pending]
         /\ obs' = [obs EXCEPT ![t] = NoObs]
         /\ UNCHANGED cache
      \/ /\ cache[i] = Vacant \/ (cache[i].st = "Computed" /\ stale)
         /\ cache' = SyncCacheClaim(cache, i)
         /\ pc' = [pc EXCEPT ![t] = "reading"]
         /\ ret' = [ret EXCEPT ![t] = Pending]
         /\ obs' = [obs EXCEPT ![t] = NoObs]

\* let val = cache.inner.get(i, || ..): the key is computed (its value is
\* handed out), being computed by another caller (wait for it), or vacant
\* (claim it and run the closure).
GetEntry(t, i) ==
    \/ /\ cache[i].st = "Computed"
       /\ Leave(t, i, SyncCacheValue(cache, i))
       /\ UNCHANGED cache
    \/ /\ cache[i] = InProcess
       /\ pc' = [pc EXCEPT ![t] = "waiting"]
       /\ ret' = [ret EXCEPT ![t] = Pending]
       /\ obs' = [obs EXCEPT ![t] = NoObs]
       /\ UNCHANGED cache
    \/ /\ cache[i] = Vacant
       /\ cache' = SyncCacheClaim(cache, i)
       /\ pc' = [pc EXCEPT ![t] = "reading"]
       /\ ret' = [ret EXCEPT ![t] = Pending]
       /\ obs' = [obs EXCEPT ![t] = NoObs]

\* None => find(..) yields Some((i, file_name)): the cached load of slot i.
StandardGet(t) ==
    \E r \in StandardRequests :
        /\ Begin(t, r)
        /\ nLookup' = nLookup + 1
        /\ GetEntry(t, FindStandard(r.name).val)
        /\ wrote' = [wrote EXCEPT ![t] = "none"]
        /\ UNCHANGED <<buf, nextPtr, cwd, nRead, nParse, nParseEmb, nWarnLoad, nWarnNoFont,
                   reads, ctx, rnd>>

IoError == [kind |-> "Io"]

\* A mutated failure arm: the failed load is not recorded, the key is vacant
\* again.
LoadFailed_NoRecord(t, i) ==
    /\ nWarnLoad' = [nWarnLoad EXCEPT ![i] = @ + 1]
    /\ cache' = [cache EXCEPT ![i] = Vacant]
    /\ Leave(t, i, None)

\* A mutated failure arm: the failure is returned to the caller as an error.
LoadFailed_Propagate(t, i) ==
    /\ nWarnLoad' = [nWarnLoad EXCEPT ![i] = @ + 1]
    /\ cache' = SyncCachePublish(cache, i, None)
    /\ obs' = [obs EXCEPT ![t] = Obs(i, None)]
    /\ pc' = [pc EXCEPT ![t] = "idle"]
    /\ ret' = [ret EXCEPT ![t] = Err(IoError)]

\* A mutated failure arm: the loader returns without publishing, the key stays
\* in process.
LoadFailed_NoPublish(t, i) ==
    /\ nWarnLoad' = [nWarnLoad EXCEPT ![i] = @ + 1]
    /\ cache' = cache
    /\ Leave(t, i, None)

\* Err(e) => { warn!(..); return None } in the closure: get() records None
\* for the slot and the caller returns Ok(None).
LoadFailed(t, i) ==
    /\ nWarnLoad' = [nWarnLoad EXCEPT ![i] = @ + 1]
    /\ cache' = SyncCachePublish(cache, i, None)
    /\ Leave(t, i, None)

\* A mutated success arm: the caller keeps a handle to an allocation of its
\* own, not the one recorded.
LoadSucceeded_TwoAllocs(t, i, font) ==
    /\ cache' = SyncCachePublish(cache, i, Some(FontRcFrom(font, nextPtr)))
    /\ Leave(t, i, Some(FontRcFrom(font, nextPtr + 1)))
    /\ nextPtr' = nextPtr + 2
    /\ UNCHANGED nWarnLoad

\* Ok(f) => Some(f.into()) in the closure: get() records the handle and the
\* caller gets a clone of it.
LoadSucceeded(t, i, font) ==
    LET f == FontRcFrom(font, nextPtr) IN
      /\ cache' = SyncCachePublish(cache, i, Some(f))
      /\ Leave(t, i, Some(FontRcClone(f)))
      /\ nextPtr' = nextPtr + 1
      /\ UNCHANGED nWarnLoad

\* The closure: std::fs::read(standard_fonts.join(file_name)).  The file may
\* be absent or unreadable or hold any bytes.
ReadAsset(t) ==
    /\ pc[t] = "reading"
    /\ LET i == SlotOf(t) IN
         /\ nRead' = [nRead EXCEPT ![i] = @ + 1]
         /\ \/ /\ LoadFailed(t, i)
               /\ UNCHANGED buf
            \/ /\ \E data \in Blobs : buf' = [buf EXCEPT ![t] = data]
               /\ pc' = [pc EXCEPT ![t] = "parsing"]
               /\ UNCHANGED <<cache, ret, obs, nWarnLoad>>
    /\ reads' = reads \cup {[path |-> AssetPath(req[t].dir, StdFile(SlotOf(t))),
                              key |-> SlotOf(t)]}
    /\ UNCHANGED <<req, nextPtr, cwd, wrote, ncalls, nLookup, nParse, nParseEmb,
                   nWarnNoFont, ctx, rnd>>

\* The closure: font::parse(&data); then get() publishes the value and
\* returns it.
ParseAsset(t) ==
    /\ pc[t] = "parsing"
    /\ LET i == SlotOf(t) IN
         /\ nParse' = [nParse EXCEPT ![i] = @ + 1]
         /\ IF ParseOk(buf[t])
            THEN LoadSucceeded(t, i, ParsedFont(buf[t]))
            ELSE LoadFailed(t, i) /\ UNCHANGED nextPtr
    /\ buf' = [buf EXCEPT ![t] = <<>>]
    /\ UNCHANGED <<req, cwd, wrote, ncalls, nLookup, nRead, nParseEmb, nWarnNoFont,
                   reads, ctx, rnd>>

\* A caller that waited in get() is released once the value is published.
Wake(t) ==
    /\ pc[t] = "waiting"
    /\ LET i == SlotOf(t) IN
         /\ cache[i].st = "Computed"
         /\ Leave(t, i, SyncCacheValue(cache, i))
    /\ UNCHANGED <<req, buf, cache, nextPtr, cwd, wrote, ncalls, nLookup, nRead, nParse,
                   nParseEmb, nWarnLoad, nWarnNoFont,
                   reads, ctx, rnd>>

Next ==
    \E t \in Threads :
        \/ DerefFail(t)
        \/ EmbeddedDataFail(t)
        \/ EmbeddedParse(t)
        \/ NoFont(t)
        \/ StandardGet(t)
        \/ ReadAsset(t)
        \/ ParseAsset(t)
        \/ Wake(t)

Spec == Init /\ [][Next]_vars

\* The resolver, std::fs::read and font::parse terminate and threads are
\* scheduled fairly: a thread that can read, parse or leave get() does so.
FairSpec ==
    /\ Spec
    /\ \A t \in Threads :
          WF_vars(ReadAsset(t)) /\ WF_vars(ParseAsset(t)) /\ WF_vars(Wake(t))


(* ------------------------ viewer.rs: Context -------------------------- *)

\* The contexts navigation starts from: num_pages >= 1, page_nr < num_pages
\* (both fields are pub and set by the embedding application).
Contexts ==
    {c \in [redraw_requested : BOOLEAN, num_pages : 1..MaxPages,
            page_nr : 0..(MaxPages - 1), scale : Scales] :
        c.page_nr < c.num_pages}

\* The page arguments callers pass: in range, the first out of range, beyond.
PageArgs == 0..(MaxPages + 1)

\* usize::min
UsizeMin(a, b) == IF a < b THEN a ELSE b

\* usize::saturating_add(1) on a page number: page_nr < num_pages <=
\* usize::MAX, so the sum is at most usize::MAX and is what is returned.
saturating_add(x, y) == x + y

\* usize::saturating_sub
saturating_sub(x, y) == IF x < y THEN 0 ELSE x - y

\* Context::request_redraw
request_redraw(c) == [c EXCEPT !.redraw_requested = TRUE]

\* A mutated goto_page: the page is not clamped.
goto_page_NoClamp(c, page) ==
    IF page # c.page_nr
    THEN request_redraw([c EXCEPT !.page_nr = page])
    ELSE c

\* Context::goto_page
goto_page(c, page) ==
    LET clamped == UsizeMin(page, c.num_pages - 1) IN
      IF clamped # c.page_nr
      THEN request_redraw([c EXCEPT !.page_nr = clamped])
      ELSE c

\* Context::next_page
next_page(c) == goto_page(c, saturating_add(c.page_nr, 1))

\* Context::prev_page
prev_page(c) == goto_page(c, saturating_sub(c.page_nr, 1))

\* Context::page_nr
page_nr(c) == c.page_nr

\* Context::zoom_by: scale *= 2^log2_factor, a float product that may or may
\* not round to DEFAULT_SCALE; then request_redraw.
zoom_by(c) == {request_redraw([c EXCEPT !.scale = s]) : s \in Scales}

\* Context::set_zoom(DEFAULT_SCALE)
set_zoom_default(c) ==
    IF c.scale # "Default"
    THEN request_redraw([c EXCEPT !.scale = "Default"])
    ELSE c

\* The key events: (event.state, modifiers.control_key(), event.physical_key).
KeyEvents ==
    [state : {"Pressed", "Released"}, ctrl : BOOLEAN,
     key : {"PageDown", "PageUp", "Digit1", "Digit2", "Digit0", "KeyA"}]

\* Interactive::keyboard_input: the contexts the event may leave.
keyboard_input(c, e) ==
    IF e.state # "Pressed" THEN {c}
    ELSE IF ~e.ctrl /\ e.key = "PageDown" THEN {next_page(c)}
    ELSE IF ~e.ctrl /\ e.key = "PageUp" THEN {prev_page(c)}
    ELSE IF e.ctrl /\ e.key \in {"Digit1", "Digit2"} THEN zoom_by(c)
    ELSE IF e.ctrl /\ e.key = "Digit0" THEN {set_zoom_default(c)}
    ELSE {c}

GotoPage(p) ==
    /\ ctx' = goto_page(ctx, p)
    /\ UNCHANGED <<fontVars, rnd>>

NextPage ==
    /\ ctx' = next_page(ctx)
    /\ UNCHANGED <<fontVars, rnd>>

PrevPage ==
    /\ ctx' = prev_page(ctx)
    /\ UNCHANGED <<fontVars, rnd>>

KeyboardInput(e) ==
    /\ ctx' \in keyboard_input(ctx, e)
    /\ UNCHANGED <<fontVars, rnd>>

(* ---------------------- viewer.rs: round_to_16 ------------------------ *)

\* i32::MAX and i32::MIN
I32Max == 2147483647

I32Min == -I32Max - 1

\* Bit k of the two's-complement representation of x.
Bit(x, k) == (x \div 2^k) % 2

\* x & 0xf
AndLow4(x) == Bit(x, 0) + 2 * Bit(x, 1) + 4 * Bit(x, 2) + 8 * Bit(x, 3)

\* x & !0xf: the four low bits cleared.
AndNot0xf(x) == x - AndLow4(x)

\* i + n leaves the range of i32.
AddOverflows(i, n) == i > I32Max - n

\* i + n in 32-bit two's complement arithmetic, wrapping around.
WrappingAdd(i, n) ==
    IF AddOverflows(i, n) THEN I32Min + (i - (I32Max - n + 1)) ELSE i + n

RoundOk(v) == [tag |-> "Ok", val |-> v]

\* panic!("attempt to add with overflow")
AddOverflowPanic == [tag |-> "Panic"]

\* A mutated round_to_16: (i + 16) & !0xf.
round_to_16_Add16(i, checked) ==
    IF AddOverflows(i, 16) /\ checked
    THEN AddOverflowPanic
    ELSE RoundOk(AndNot0xf(WrappingAdd(i, 16)))

\* round_to_16(i) = (i + 15) & !0xf.  When i + 15 overflows, a build with
\* overflow checks panics and a build without them wraps around.
round_to_16(i, checked) ==
    IF AddOverflows(i, 15) /\ checked
    THEN AddOverflowPanic
    ELSE RoundOk(AndNot0xf(WrappingAdd(i, 15)))

\* round_v_to_16(v) = Vector2I::new(round_to_16(v.x()), round_to_16(v.y()))
round_v_to_16(v, checked) ==
    LET x == round_to_16(v[1], checked)
        y == round_to_16(v[2], checked)
    IN IF x.tag = "Panic" \/ y.tag = "Panic"
       THEN AddOverflowPanic
       ELSE RoundOk(<<x.val, y.val>>)

\* The integers round_to_16 is applied to.
RoundArgs ==
    (-RoundSpan .. RoundSpan)
    \cup {I32Max - k : k \in 0..RoundSpan}
    \cup {I32Min + k : k \in 0..RoundSpan}

\* The vectors round_v_to_16 is applied to.
RoundVectors == RoundArgs \X {-1, 16, I32Max}

RoundVTo16(v) ==
    /\ \E checked \in BOOLEAN :
          rnd' = [called |-> TRUE, arg |-> v, out |-> round_v_to_16(v, checked)]
    /\ UNCHANGED <<fontVars, ctx>>

(* ------------------------ the viewer's steps -------------------------- *)

\* Page navigation and key input, from any context with page_nr < num_pages.
NavInit ==
    /\ FontInit
    /\ ctx \in Contexts
    /\ rnd = NoRound

NavNext ==
    \/ \E p \in PageArgs : GotoPage(p)
    \/ NextPage
    \/ PrevPage
    \/ \E e \in KeyEvents : KeyboardInput(e)

NavSpec == NavInit /\ [][NavNext]_vars

\* Calls of round_v_to_16 on the vectors of RoundVectors.
RoundNext == \E v \in RoundVectors : RoundVTo16(v)

RoundSpec == Init /\ [][RoundNext]_vars

(* ------------------------- vocabulary of the claims -------------------- *)

\* Thread t enters load_font in this step.
CallBy(t) == ncalls'[t] = ncalls[t] + 1

\* Thread t runs the load closure.
Loading(t) == pc[t] \in {"reading", "parsing"}

\* The declared name is absent or equals no name of STANDARD_FONTS.
NotInTable(name) == ~name.some \/ \A i \in Slots : name.val # StdName(i)

\* Thread t's current or last call is for a font without embedded data whose
\* name is that of slot i.
OnSlot(t, i) ==
    /\ ncalls[t] > 0
    /\ req[t].deref
    /\ req[t].data = NoData
    /\ req[t].name.some
    /\ req[t].name.val = StdName(i)

\* Thread t's last call parsed embedded bytes.
OnEmbedded(t) == ncalls[t] > 0 /\ req[t].deref /\ req[t].data.tag = "Ok"

\* The handles threads and the cache hold.
Handles ==
    {ret[t].font : t \in {u \in Threads : ret[u].tag = "OkSome"}}
    \cup {obs[t].val.val : t \in {u \in Threads : obs[u].seen /\ obs[u].val.some}}
    \cup {cache[i].val.val :
            i \in {j \in Slots : cache[j].st = "Computed" /\ cache[j].val.some}}

(* ------------------------------- C1 ----------------------------------- *)

\* C1: for every slot, the asset file is read at most once and parsed at most
\* once over all calls, at most one thread runs the slot's load closure at a
\* time, the slot is marked in process exactly while it runs, and a caller
\* that waits does so on a slot that is being or has been computed.
C1_AtMostOneLoad ==
    \A i \in Slots :
        /\ nRead[i] <= 1
        /\ nParse[i] <= 1
        /\ Cardinality({t \in Threads : Loading(t) /\ OnSlot(t, i)}) <= 1
        /\ (cache[i] = InProcess) <=> (\E t \in Threads : Loading(t) /\ OnSlot(t, i))
        /\ \A t \in Threads : pc[t] = "waiting" /\ OnSlot(t, i) => cache[i] # Vacant

\* One caller waits while another parses the asset of the same slot, read once.
C1_Witness ==
    \E t1, t2 \in Threads : \E i \in Slots :
        /\ pc[t1] = "waiting" /\ OnSlot(t1, i)
        /\ pc[t2] = "parsing" /\ OnSlot(t2, i)
        /\ nRead[i] = 1

(* ------------------------------- C2 ----------------------------------- *)

\* C2: two calls on the same slot get the same value from the cache, None for
\* both or handles to the same allocation for both; the value a call gets is
\* the complete recorded result of the slot; and the call returns Ok(None)
\* exactly when that value is None, and otherwise the handle it got (unless
\* FontEntry::build fails afterwards).
C2_SameOutcome ==
    /\ \A t1, t2 \in Threads :
          (obs[t1].seen /\ obs[t2].seen /\ obs[t1].slot = obs[t2].slot) =>
              /\ obs[t1].val.some = obs[t2].val.some
              /\ obs[t1].val.some => FontRcEq(obs[t1].val.val, obs[t2].val.val)
    /\ \A t \in Threads :
          obs[t].seen =>
              /\ OnSlot(t, obs[t].slot)
              /\ cache[obs[t].slot] = Computed(obs[t].val)
              /\ (ret[t] = OkNone) <=> ~obs[t].val.some
              /\ ret[t].tag = "OkSome" => FontRcEq(ret[t].font, obs[t].val.val)
              /\ ret[t].tag \in {"OkNone", "OkSome", "Err"}
              /\ ret[t].tag = "Err" => ret[t].err = BuildError
    /\ \A t \in Threads : \A i \in Slots :
          (OnSlot(t, i) /\ cache[i].st # "Computed") => ~obs[t].seen /\ ret[t] = Pending

\* Two threads returned the handle of one slot, the same allocation.
C2_Witness ==
    \E t1, t2 \in Threads :
        /\ t1 # t2
        /\ obs[t1].seen /\ obs[t2].seen /\ obs[t1].slot = obs[t2].slot
        /\ ret[t1].tag = "OkSome" /\ ret[t2].tag = "OkSome"
        /\ FontRcEq(ret[t1].font, ret[t2].font)

(* ------------------------------- C3 ----------------------------------- *)

\* C3: a slot records None exactly when its one load attempt failed and warned
\* once; from then on the entry stays None, the slot's file is not read or
\* parsed again, no further load warning is logged, and every call for the
\* slot returns Ok(None) at once.
C3_NegativeCaching ==
    /\ [](\A i \in Slots :
             /\ nWarnLoad[i] <= 1
             /\ (cache[i] = Computed(None)) <=> (nWarnLoad[i] = 1)
             /\ cache[i] = Computed(None) => nRead[i] = 1)
    /\ [][\A i \in Slots :
             cache[i] = Computed(None) =>
                /\ cache'[i] = Computed(None)
                /\ nRead'[i] = nRead[i]
                /\ nParse'[i] = nParse[i]
                /\ nWarnLoad'[i] = nWarnLoad[i]
                /\ \A t \in Threads :
                      (CallBy(t) /\ req'[t].deref /\ req'[t].data = NoData
                         /\ req'[t].name = Some(StdName(i)))
                      => ret'[t] = OkNone /\ pc'[t] = "idle"]_vars

\* One thread resolved a slot twice, nobody else called: the file was read
\* once, is absent, and the second call got the recorded None.
C3_Witness ==
    \E t \in Threads : \E i \in Slots :
        /\ ncalls[t] = 2 /\ \A u \in Threads : u # t => ncalls[u] = 0
        /\ nLookup = 2
        /\ nRead[i] = 1 /\ nParse[i] = 0
        /\ \A j \in Slots : j # i => nRead[j] = 0
        /\ cache[i] = Computed(None)
        /\ obs[t] = Obs(i, None) /\ ret[t] = OkNone

(* ------------------------------- C4 ----------------------------------- *)

\* C4: a computed entry of the cache never changes, and a call for a slot
\* whose entry is computed leaves the whole cache unchanged.
C4_WriteOnce ==
    [][/\ \A i \in Slots : cache[i].st = "Computed" => cache'[i] = cache[i]
       /\ \A t \in Threads : \A i \in Slots :
             (CallBy(t) /\ req'[t].deref /\ req'[t].data = NoData
                /\ req'[t].name = Some(StdName(i)) /\ cache[i].st = "Computed")
             => cache' = cache]_vars

\* One thread resolved a slot twice, nobody else called: the second call got
\* the handle the first recorded.
C4_Witness ==
    \E t \in Threads : \E i \in Slots :
        /\ ncalls[t] = 2 /\ \A u \in Threads : u # t => ncalls[u] = 0
        /\ nLookup = 2
        /\ nRead[i] = 1 /\ nParse[i] = 1
        /\ \A j \in Slots : j # i => nRead[j] = 0
        /\ cache[i].st = "Computed" /\ cache[i].val.some
        /\ obs[t] = Obs(i, cache[i].val)

(* ------------------------------- C5 ----------------------------------- *)

\* C5: a call whose font carries embedded bytes leaves the cache as it was,
\* searches STANDARD_FONTS not at all, reads and parses no asset file, gets no
\* value from the cache, and parses the embedded bytes once itself.
C5_EmbeddedBypass ==
    [][\A t \in Threads :
          (CallBy(t) /\ req'[t].deref /\ req'[t].data.tag = "Ok") =>
              /\ cache' = cache
              /\ nLookup' = nLookup
              /\ nRead' = nRead
              /\ nParse' = nParse
              /\ nParseEmb' = nParseEmb + 1
              /\ obs'[t] = NoObs
              /\ pc'[t] # "reading" /\ pc'[t] # "waiting"]_vars

\* An embedded font named "Helvetica" was parsed while the Helvetica slot
\* holds a handle: the call returned a handle of its own.
C5_Witness ==
    \E t \in Threads : \E i \in Slots :
        /\ OnEmbedded(t) /\ req[t].name = Some(StdName(i))
        /\ ret[t].tag = "OkSome"
        /\ cache[i].st = "Computed" /\ cache[i].val.some
        /\ ~FontRcEq(ret[t].font, cache[i].val.val)

(* ------------------------------- C6 ----------------------------------- *)

\* C6: handles of the same slot are equal and hash equally; a clone equals
\* its original and hashes equally; two handles from two parses of embedded
\* data are not equal, byte-identical data included, and neither equals a
\* slot's handle; equal handles hash equally and hold the same font.
C6_IdentityEquality ==
    /\ \A t1, t2 \in Threads :
          (obs[t1].seen /\ obs[t2].seen /\ obs[t1].slot = obs[t2].slot
             /\ ret[t1].tag = "OkSome" /\ ret[t2].tag = "OkSome") =>
              /\ FontRcEq(ret[t1].font, ret[t2].font)
              /\ FontRcHash(ret[t1].font) = FontRcHash(ret[t2].font)
              /\ FontRcEq(ret[t1].font, cache[obs[t1].slot].val.val)
    /\ \A h \in Handles :
          /\ FontRcEq(FontRcClone(h), h)
          /\ FontRcHash(FontRcClone(h)) = FontRcHash(h)
    /\ \A t1, t2 \in Threads :
          (t1 # t2 /\ OnEmbedded(t1) /\ OnEmbedded(t2)
             /\ ret[t1].tag = "OkSome" /\ ret[t2].tag = "OkSome") =>
              ~FontRcEq(ret[t1].font, ret[t2].font)
    /\ \A t \in Threads : \A i \in Slots :
          (OnEmbedded(t) /\ ret[t].tag = "OkSome"
             /\ cache[i].st = "Computed" /\ cache[i].val.some) =>
              ~FontRcEq(ret[t].font, cache[i].val.val)
    /\ \A h1, h2 \in Handles :
          FontRcEq(h1, h2) => FontRcHash(h1) = FontRcHash(h2) /\ h1.font = h2.font

\* Two threads parsed byte-identical embedded data: same font content,
\* unequal handles.
C6_Witness ==
    \E t1, t2 \in Threads :
        /\ t1 # t2
        /\ OnEmbedded(t1) /\ OnEmbedded(t2)
        /\ req[t1].data.bytes = req[t2].data.bytes
        /\ ret[t1].tag = "OkSome" /\ ret[t2].tag = "OkSome"
        /\ ret[t1].font.font = ret[t2].font.font
        /\ ~FontRcEq(ret[t1].font, ret[t2].font)

(* ------------------------------- C7 ----------------------------------- *)

\* C7: once the load of a slot has failed (it warned), the slot records None
\* and every call for that slot that has returned, the one that ran the load
\* and those that waited for it included, returned Ok(None), never an error.
C7_LoadFailureIsNone ==
    \A i \in Slots :
        nWarnLoad[i] > 0 =>
            /\ cache[i] = Computed(None)
            /\ \A t \in Threads :
                  OnSlot(t, i) =>
                      \/ pc[t] = "waiting" /\ ret[t] = Pending
                      \/ pc[t] = "idle" /\ ret[t] = OkNone /\ obs[t] = Obs(i, None)

\* The parse of a slot's asset failed: the loader returned Ok(None) and a
\* caller that waited for it is about to be released.
C7_Witness ==
    \E t1, t2 \in Threads : \E i \in Slots :
        /\ pc[t1] = "waiting" /\ OnSlot(t1, i)
        /\ OnSlot(t2, i) /\ pc[t2] = "idle" /\ ret[t2] = OkNone
        /\ nParse[i] = 1 /\ nWarnLoad[i] = 1

(* ------------------------------- C8 ----------------------------------- *)

\* C8: a call for a font without embedded data whose name is absent or equals
\* no name of STANDARD_FONTS returns Ok(None) at once, logs one warning, reads
\* no file, writes no file and leaves the cache unchanged.
C8_UnknownNameIsNone ==
    [][\A t \in Threads :
          (CallBy(t) /\ req'[t].deref /\ req'[t].data = NoData
             /\ NotInTable(req'[t].name)) =>
              /\ ret'[t] = OkNone
              /\ pc'[t] = "idle"
              /\ nWarnNoFont' = nWarnNoFont + 1
              /\ nWarnLoad' = nWarnLoad
              /\ nRead' = nRead
              /\ nParse' = nParse
              /\ cwd' = cwd
              /\ cache' = cache]_vars

\* "Wingdings" resolved to no font, with one warning, next to a cache that
\* holds a computed slot and nothing read for any other.
C8_Witness ==
    \E t \in Threads : \E i \in Slots :
        /\ ncalls[t] > 0 /\ req[t].deref /\ req[t].data = NoData
        /\ req[t].name = Some("Wingdings")
        /\ ret[t] = OkNone /\ nWarnNoFont = 1
        /\ cache[i].st = "Computed" /\ nRead[i] = 1
        /\ \A j \in Slots : j # i => cache[j] = Vacant /\ nRead[j] = 0

(* ------------------------------- C9 ----------------------------------- *)

\* C9: a call whose embedded bytes do not parse returns the error that
\* carries the parse error, the file font_<name> (font_unnamed without a
\* name) then holds exactly those bytes, and the cache is unchanged.
C9_CorruptEmbeddedDumped ==
    [][\A t \in Threads :
          (CallBy(t) /\ req'[t].deref /\ req'[t].data.tag = "Ok"
             /\ ~ParseOk(req'[t].data.bytes)) =>
              /\ ret'[t] = Err(FontError(ParseError(req'[t].data.bytes)))
              /\ [name |-> DumpName(req'[t].name), bytes |-> req'[t].data.bytes] \in cwd'
              /\ cache' = cache]_vars

(* ------------------------------- C10 ---------------------------------- *)

\* C10: when the write of the dump file fails, the call still returns the
\* parse error.
C10_DumpIsBestEffort ==
    \A t \in Threads :
        wrote[t] = "failed" =>
            ret[t] = Err(FontError(ParseError(req[t].data.bytes)))


(* ------------------------------- C11 ---------------------------------- *)

\* C11: a call whose font reference fails to dereference, or whose
\* embedded-data accessor fails, returns that error at once and does nothing
\* else: no parse, no search of STANDARD_FONTS, no file read or written, no
\* warning, and the cache is unchanged.
C11_EarlyErrorsPropagate ==
    [][\A t \in Threads :
          (CallBy(t) /\ (~req'[t].deref \/ req'[t].data = DataErr)) =>
              /\ ret'[t] = IF req'[t].deref THEN Err(EmbeddedDataError)
                                             ELSE Err(DerefError)
              /\ pc'[t] = "idle"
              /\ nLookup' = nLookup
              /\ nParseEmb' = nParseEmb
              /\ nParse' = nParse
              /\ nRead' = nRead
              /\ reads' = reads
              /\ cwd' = cwd
              /\ wrote'[t] = "none"
              /\ nWarnLoad' = nWarnLoad
              /\ nWarnNoFont' = nWarnNoFont
              /\ nextPtr' = nextPtr
              /\ cache' = cache]_vars

\* One call returned the dereference error and another the accessor's error.
C11_Witness ==
    \E t1, t2 \in Threads :
        /\ ncalls[t1] > 0 /\ ~req[t1].deref /\ ret[t1] = Err(DerefError)
        /\ ncalls[t2] > 0 /\ req[t2].deref /\ req[t2].data = DataErr
        /\ ret[t2] = Err(EmbeddedDataError)

(* ------------------------------- C12 ---------------------------------- *)

\* C12 as stated: load_font returns an error only when the dereference of the
\* font reference fails; a font with corrupt embedded bytes gets Ok(None).
C12_OnlyDerefErrors ==
    \A t \in Threads :
        /\ ret[t].tag = "Err" => ~req[t].deref
        /\ (OnEmbedded(t) /\ ~ParseOk(req[t].data.bytes) /\ pc[t] = "idle")
              => ret[t] = OkNone

\* C12: load_font returns an error only when the dereference fails, the
\* embedded-data accessor fails, the embedded bytes fail to parse, or
\* FontEntry::build fails on a font that was obtained, and the error is the
\* one of that cause.  A standard font whose asset file is missing, unreadable
\* or unparsable, and a name that is not in STANDARD_FONTS, give Ok(None),
\* never an error.
C12_ErrorCauses ==
    \A t \in Threads :
        /\ ret[t].tag = "Err" =>
              \/ ~req[t].deref /\ ret[t].err = DerefError
              \/ req[t].deref /\ req[t].data = DataErr
                    /\ ret[t].err = EmbeddedDataError
              \/ OnEmbedded(t) /\ ~ParseOk(req[t].data.bytes)
                    /\ ret[t].err = FontError(ParseError(req[t].data.bytes))
              \/ OnEmbedded(t) /\ ParseOk(req[t].data.bytes)
                    /\ ret[t].err = BuildError
              \/ obs[t].seen /\ obs[t].val.some /\ ret[t].err = BuildError
        /\ (ncalls[t] > 0 /\ pc[t] = "idle" /\ req[t].deref /\ req[t].data = NoData) =>
              /\ NotInTable(req[t].name) => ret[t] = OkNone
              /\ ~NotInTable(req[t].name) =>
                    /\ obs[t].seen
                    /\ ~obs[t].val.some => ret[t] = OkNone
                    /\ \A i \in Slots :
                          (OnSlot(t, i) /\ nWarnLoad[i] > 0) => ret[t] = OkNone

\* One call failed with the parse error of its embedded bytes while another,
\* whose standard-font asset could not be loaded, returned Ok(None).
C12_Witness ==
    \E t1, t2 \in Threads : \E i \in Slots :
        /\ OnEmbedded(t1) /\ ~ParseOk(req[t1].data.bytes)
        /\ ret[t1] = Err(FontError(ParseError(req[t1].data.bytes)))
        /\ OnSlot(t2, i) /\ pc[t2] = "idle" /\ nWarnLoad[i] = 1
        /\ ret[t2] = OkNone

(* ------------------------------- C13 ---------------------------------- *)

\* C13: a computation in progress for one slot does not delay a call for
\* another slot.  A caller waits only on its own slot and only while a loader
\* of that same slot is at work; a call whose slot is not being computed
\* never waits, whatever the other slots are doing: it returns the recorded
\* result at once or starts its own computation; and a caller that is
\* reading or parsing can always take its next step.
C13_NoCrossSlotBlocking ==
    /\ [](\A t \in Threads :
             /\ pc[t] = "waiting" =>
                   /\ cache[SlotOf(t)] # Vacant
                   /\ cache[SlotOf(t)] = InProcess =>
                         \E u \in Threads \ {t} :
                             Loading(u) /\ SlotOf(u) = SlotOf(t)
             /\ pc[t] = "reading" => ENABLED ReadAsset(t)
             /\ pc[t] = "parsing" => ENABLED ParseAsset(t))
    /\ [][\A t \in Threads : \A i \in Slots :
             (CallBy(t) /\ OnSlot(t, i)' /\ cache[i] # InProcess) =>
                 /\ pc'[t] # "waiting"
                 /\ cache[i].st = "Computed" =>
                       pc'[t] = "idle" /\ obs'[t] = Obs(i, cache[i].val)
                 /\ cache[i] = Vacant => pc'[t] = "reading"]_vars

\* The computations of two different slots are in progress at once: the
\* second started while the first had not finished.
C13_Witness ==
    \E t1, t2 \in Threads : \E a, b \in Slots :
        /\ a # b
        /\ OnSlot(t1, a) /\ pc[t1] = "parsing" /\ cache[a] = InProcess
        /\ OnSlot(t2, b) /\ pc[t2] = "parsing" /\ cache[b] = InProcess

(* ------------------------------- C14 ---------------------------------- *)

\* The asset file names of STANDARD_FONTS.
AssetFiles == {StdFile(i) : i \in Slots}

\* The slots whose entry names asset file f.
SlotsOfFile(f) == {i \in Slots : StdFile(i) = f}

RECURSIVE SumOver(_, _)
SumOver(n, S) ==
    IF S = {} THEN 0
    ELSE LET i == CHOOSE j \in S : TRUE IN n[i] + SumOver(n, S \ {i})

\* C14 as stated: for each asset file name of STANDARD_FONTS, at most one
\* read and at most one parse of that file occur over all calls, whichever
\* declared names the callers use.
C14_OneLoadPerFile ==
    \A f \in AssetFiles :
        /\ SumOver(nRead, SlotsOfFile(f)) <= 1
        /\ SumOver(nParse, SlotsOfFile(f)) <= 1

(* ------------------------------- C15 ---------------------------------- *)

\* Thread t is inside cache.inner.get: running the closure or waiting.
InGet(t) == pc[t] \in {"reading", "parsing", "waiting"}

\* C15: under fair scheduling every call that entered the cached load
\* eventually returns: a loader finishes its read and parse, and a caller
\* waiting on a slot is released once that slot's computation has completed,
\* with a handle or with None.  Whatever slots the concurrent calls are on,
\* while some call is inside get() some thread can take a step.  (Calls on the
\* other paths have no blocking step: they end within the call step.)
C15_EveryCallReturns ==
    /\ \A t \in Threads : InGet(t) ~> (pc[t] = "idle" /\ obs[t].seen)
    /\ [](\A t \in Threads :
             (pc[t] = "waiting" /\ cache[SlotOf(t)].st = "Computed") =>
                 ENABLED Wake(t))
    /\ []((\E t \in Threads : InGet(t)) =>
              \E u \in Threads :
                  ENABLED (ReadAsset(u) \/ ParseAsset(u) \/ Wake(u)))

\* A caller is blocked on a slot whose computation has just completed with a
\* failure, while the loader has returned.
C15_Witness ==
    \E t1, t2 \in Threads :
        /\ t1 # t2
        /\ pc[t1] = "waiting"
        /\ cache[SlotOf(t1)] = Computed(None)
        /\ pc[t2] = "idle" /\ obs[t2] = Obs(SlotOf(t1), None)

(* ------------------------------- C16 ---------------------------------- *)

\* The names looked up: those the documents declare and every name of the
\* table.
LookupNames == NameOpts \cup {Some(StdName(i)) : i \in Slots}

\* The lookup as a function of the name: found exactly when the name equals
\* an entry's name, at the index of that entry, different names at different
\* indices, and no match across letter case.
LookupIsExact ==
    /\ \A n \in LookupNames :
          /\ FindStandard(n).some <=>
                (n.some /\ \E i \in Slots : StdName(i) = n.val)
          /\ FindStandard(n).some =>
                /\ FindStandard(n).val \in Slots
                /\ StdName(FindStandard(n).val) = n.val
    /\ \A n1, n2 \in LookupNames :
          (n1 # n2 /\ FindStandard(n1).some /\ FindStandard(n2).some)
              => FindStandard(n1).val # FindStandard(n2).val
    /\ \A i \in Slots : FindStandard(Some(StdName(i))) = Some(i)
    /\ FindStandard(Some("Helvetica")).some
    /\ ~FindStandard(Some("helvetica")).some

\* C16: the lookup is an exact, case-sensitive match of the whole name.  A
\* name is found exactly when it equals the name of an entry, and the slot is
\* the index of that entry; two different names never get the same slot; a
\* name differing from an entry's name only in case is not found.  The slot
\* is the cache key of the call: a call for a standard name touches the cache
\* at the index of its name and nowhere else, and every file read for a key
\* is the file the table pairs with that key's name.
C16_ExactLookup ==
    /\ [](/\ LookupIsExact
          /\ \A r \in reads :
                /\ r.path.file = StdFile(r.key)
                /\ \E n \in StandardNameOpts :
                      n.val = StdName(r.key) /\ FindStandard(n) = Some(r.key)
          /\ \A t \in Threads :
                /\ obs[t].seen => StdName(obs[t].slot) = req[t].name.val
                /\ InGet(t) => cache[SlotOf(t)] # Vacant
                               /\ StdName(SlotOf(t)) = req[t].name.val)
    /\ [][\A t \in Threads :
             (CallBy(t) /\ req'[t].deref /\ req'[t].data = NoData) =>
                 \A i \in Slots :
                     cache'[i] # cache[i] =>
                         req'[t].name.some /\ StdName(i) = req'[t].name.val]_vars
    /\ [][\A t \in Threads :
             (pc[t] = "reading" /\ pc'[t] # "reading") =>
                 reads' = reads \cup
                     {[path |-> AssetPath(req[t].dir,
                                  CHOOSE f \in AssetFiles :
                                      \E i \in Slots :
                                          STANDARD_FONTS[i + 1] = <<req[t].name.val, f>>),
                       key |-> CHOOSE i \in Slots : StdName(i) = req[t].name.val]}]_vars

\* The asset of "Helvetica" was read under key 11 from MyriadPro-Regular.otf
\* while a call declaring "helvetica" found no font.
C16_Witness ==
    \E t1, t2 \in Threads :
        /\ OnSlot(t1, 11) /\ req[t1].name = Some("Helvetica")
        /\ \E r \in reads : r.key = 11 /\ r.path.file = "MyriadPro-Regular.otf"
        /\ ncalls[t2] > 0 /\ req[t2].deref /\ req[t2].data = NoData
        /\ req[t2].name = Some("helvetica") /\ ret[t2] = OkNone

(* ------------------------------- C17 ---------------------------------- *)

\* C17: the cache is keyed by the slot alone.  A call for a slot that has a
\* recorded result, whatever standard_fonts directory it passes, reads no
\* file, leaves the cache as it is and gets the recorded value, None or the
\* recorded handle; so the asset of a slot is read from one directory only,
\* that of the first load.
C17_KeyedBySlotOnly ==
    /\ [](\A r1, r2 \in reads : r1.key = r2.key => r1 = r2)
    /\ [][\A t \in Threads : \A i \in Slots :
             (CallBy(t) /\ OnSlot(t, i)' /\ cache[i].st = "Computed") =>
                 /\ reads' = reads
                 /\ nRead' = nRead
                 /\ nParse' = nParse
                 /\ cache' = cache
                 /\ pc'[t] = "idle"
                 /\ obs'[t] = Obs(i, cache[i].val)
                 /\ ~cache[i].val.some => ret'[t] = OkNone
                 /\ cache[i].val.some =>
                       ret'[t] \in {OkSome(cache[i].val.val), Err(BuildError)}]_vars

\* A slot whose load from "fonts" failed was asked for again with the
\* directory "alt": the call returned the recorded None and "alt" was not read.
C17_Witness ==
    \E t \in Threads : \E i \in Slots :
        /\ OnSlot(t, i) /\ req[t].dir = "alt" /\ pc[t] = "idle"
        /\ obs[t] = Obs(i, None) /\ ret[t] = OkNone
        /\ cache[i] = Computed(None)
        /\ nRead[i] = 1
        /\ reads = {[path |-> AssetPath("fonts", StdFile(i)), key |-> i]}

(* ------------------------------- C18 ---------------------------------- *)

\* What goto_page, next_page and prev_page leave alone, and the redraw flag:
\* requested by the call exactly when the page number changed.
NavFrame(c, d) ==
    /\ d.num_pages = c.num_pages
    /\ d.scale = c.scale
    /\ d.redraw_requested = (c.redraw_requested \/ d.page_nr # c.page_nr)

\* C18: navigation keeps the page in range.  In every context reached from
\* one with num_pages >= 1 and page_nr < num_pages by goto_page, next_page,
\* prev_page and key input, page_nr < num_pages; goto_page(p) moves to p
\* clamped to num_pages - 1, next_page on the last page and prev_page on page
\* 0 leave page_nr as it is and otherwise move by one; each of these calls
\* requests a redraw only if page_nr changed; and PageDown and PageUp,
\* pressed without control, are next_page and prev_page.
C18_PageInRange ==
    /\ ctx.num_pages >= 1
    /\ page_nr(ctx) < ctx.num_pages
    /\ \A p \in PageArgs :
          /\ goto_page(ctx, p).page_nr =
                (IF p > ctx.num_pages - 1 THEN ctx.num_pages - 1 ELSE p)
          /\ NavFrame(ctx, goto_page(ctx, p))
    /\ next_page(ctx).page_nr =
          (IF ctx.page_nr = ctx.num_pages - 1 THEN ctx.page_nr
                                              ELSE ctx.page_nr + 1)
    /\ NavFrame(ctx, next_page(ctx))
    /\ prev_page(ctx).page_nr =
          (IF ctx.page_nr = 0 THEN 0 ELSE ctx.page_nr - 1)
    /\ NavFrame(ctx, prev_page(ctx))
    /\ \A e \in KeyEvents :
          (e.state = "Pressed" /\ ~e.ctrl) =>
              /\ e.key = "PageDown" => keyboard_input(ctx, e) = {next_page(ctx)}
              /\ e.key = "PageUp" => keyboard_input(ctx, e) = {prev_page(ctx)}

\* The last page of the longest document with no redraw requested: next_page
\* and a goto_page beyond the end change nothing, prev_page moves and
\* requests a redraw.
C18_Witness ==
    /\ ctx.num_pages = MaxPages
    /\ ctx.page_nr = MaxPages - 1
    /\ ~ctx.redraw_requested
    /\ next_page(ctx) = ctx
    /\ goto_page(ctx, MaxPages + 1) = ctx
    /\ prev_page(ctx).page_nr = MaxPages - 2
    /\ prev_page(ctx).redraw_requested

(* ------------------------------- C19 ---------------------------------- *)

\* r is the smallest multiple of 16 that is >= i.
IsRoundUp16(i, r) == r % 16 = 0 /\ r >= i /\ r - i < 16

\* C19: for every i32 i such that i + 15 does not overflow, negative ones
\* included, round_to_16(i) is the smallest multiple of 16 that is >= i; for
\* i > i32::MAX - 15 the addition overflows and the call yields no such
\* value: it panics or returns a wrapped value that is not a multiple of 16
\* at or above i.
C19_RoundUpTo16 ==
    rnd.called =>
        /\ \A k \in 1..2 :
              IF AddOverflows(rnd.arg[k], 15)
              THEN rnd.arg[k] > I32Max - 15
                   /\ (rnd.out.tag = "Ok" => ~IsRoundUp16(rnd.arg[k], rnd.out.val[k]))
              ELSE rnd.out.tag = "Ok" => IsRoundUp16(rnd.arg[k], rnd.out.val[k])
        /\ (\A k \in 1..2 : ~AddOverflows(rnd.arg[k], 15)) => rnd.out.tag = "Ok"

\* round_v_to_16 on (-17, 16) gave (-16, 16).
C19_Witness ==
    /\ rnd.called
    /\ rnd.arg = <<-17, 16>>
    /\ rnd.out = RoundOk(<<-16, 16>>)

=============================================================================
